---- MODULE Spec2Model ----
(***************************************************************************)
(* STOMP client of tokio-stomp-2 (src/src/client.rs): ClientCodec::decode  *)
(* over the frame parser and the message model, the Framed transport and   *)
(* the CONNECT / CONNECTED handshake of client_handshake.                  *)
(*                                                                         *)
(* Bytes are abstracted to tokens: every command word and every header     *)
(* name is one byte, "LF" is the line break, "NUL" the frame terminator,   *)
(* ":" the header separator and "BS" the backslash that starts an escape.  *)
(***************************************************************************)
EXTENDS Integers, Sequences, FiniteSets, TLC

VARIABLES
    script,     \* what the server is going to send: a sequence of units
    wire,       \* bytes of the script the socket has not delivered yet
    buf,        \* Framed's read buffer, the `src` handed to decode
    readable,   \* Framed's is_readable flag
    eof,        \* Framed has seen the end of the stream
    pc,         \* handshake state
    outcome,    \* what client_handshake returned
    items,      \* the items transport.next() has yielded so far
    last,       \* the last call of ClientCodec::decode: src, result, src after
    out,        \* the bytes written to the socket (of a bare codec: its dst)
    sock,       \* the TcpStream inside the transport: "open" or "dropped"
    bytewise,   \* every read so far handed over exactly one byte
    args,       \* the call: entry point, address, login, passcode, headers
    sent,       \* the calls of ClientCodec::encode so far: item and result
    hsock       \* the transport as client_handshake left it when it returned

vars == <<script, wire, buf, readable, eof, pc, outcome, items, last, out,
          sock, bytewise, args, sent, hsock>>

-----------------------------------------------------------------------------
(* Bytes and sequences                                                     *)

LF  == "LF"
NUL == "NUL"
COL == ":"
BS  == "BS"

None == [kind |-> "None"]
Some(v) == [kind |-> "Some", val |-> v]

RECURSIVE Flatten(_)
Flatten(ss) == IF ss = <<>> THEN <<>> ELSE Head(ss) \o Flatten(Tail(ss))

\* advance that drops nothing
advance_keeps_all(src, cnt) == src

\* BytesMut::advance(cnt): drops the first cnt bytes, keeps the rest
advance(src, cnt) == SubSeq(src, cnt + 1, Len(src))

-----------------------------------------------------------------------------
(* Frame grammar: frame::parse_frame, from the wire format                 *)

ServerCommands == {"CONNECTED", "ERROR", "MESSAGE"}
ClientCommands == {"CONNECT", "SEND", "SUBSCRIBE"}
Commands == ServerCommands \cup ClientCommands

\* the one-byte token of each command word on the wire
CommandByte(c) ==
    CASE c = "CONNECTED" -> "C"
      [] c = "ERROR"     -> "E"
      [] c = "MESSAGE"   -> "M"
      [] c = "CONNECT"   -> "N"
      [] c = "SEND"      -> "S"
      [] c = "SUBSCRIBE" -> "U"

CommandOf(b) == CHOOSE c \in Commands : CommandByte(c) = b
IsCommandByte(b) == \E c \in Commands : CommandByte(c) = b

Incomplete == [kind |-> "Incomplete"]
ParseError(rule) == [kind |-> "Error", rule |-> rule]

\* first position >= i that holds no line break (keep-alive padding is skipped)
RECURSIVE SkipPadding(_, _)
SkipPadding(s, i) ==
    IF i <= Len(s) /\ s[i] = LF THEN SkipPadding(s, i + 1) ELSE i

\* header name from position i: bytes up to the colon
RECURSIVE ParseName(_, _, _)
ParseName(s, i, j) ==
    IF j > Len(s) THEN Incomplete
    ELSE IF s[j] = COL
         THEN IF j > i THEN [kind |-> "Ok", name |-> SubSeq(s, i, j - 1), next |-> j + 1]
              ELSE ParseError("invalid header line")
    ELSE IF s[j] \in {LF, NUL, BS} THEN ParseError("invalid header line")
    ELSE ParseName(s, i, j + 1)

\* header value from position k: bytes up to the line break, escapes decoded
RECURSIVE ParseValue(_, _, _)
ParseValue(s, k, acc) ==
    IF k > Len(s) THEN Incomplete
    ELSE IF s[k] = LF THEN [kind |-> "Ok", value |-> acc, next |-> k + 1]
    ELSE IF s[k] \in {NUL, COL} THEN ParseError("unescaped control character")
    ELSE IF s[k] = BS
         THEN IF k + 1 > Len(s) THEN Incomplete
              ELSE IF s[k + 1] = "c" THEN ParseValue(s, k + 2, Append(acc, COL))
              ELSE IF s[k + 1] = "n" THEN ParseValue(s, k + 2, Append(acc, LF))
              ELSE IF s[k + 1] = BS THEN ParseValue(s, k + 2, Append(acc, BS))
              ELSE ParseError("invalid escape")
    ELSE ParseValue(s, k + 1, Append(acc, s[k]))

\* header block from position i: name:value lines up to the blank line
RECURSIVE ParseHeaders(_, _, _)
ParseHeaders(s, i, acc) ==
    IF i > Len(s) THEN Incomplete
    ELSE IF s[i] = LF THEN [kind |-> "Ok", headers |-> acc, next |-> i + 1]
    ELSE LET n == ParseName(s, i, i) IN
         IF n.kind # "Ok" THEN n
         ELSE LET v == ParseValue(s, n.next, <<>>) IN
              IF v.kind # "Ok" THEN v
              ELSE ParseHeaders(s, v.next, Append(acc, <<n.name, v.value>>))

Digits == {"0", "1", "2", "3"}
DigitValue(d) == CASE d = "0" -> 0 [] d = "1" -> 1 [] d = "2" -> 2 [] d = "3" -> 3

RECURSIVE NatOf(_, _)
NatOf(v, acc) ==
    IF v = <<>> THEN acc ELSE NatOf(Tail(v), 10 * acc + DigitValue(Head(v)))

IsInteger(v) == v # <<>> /\ \A k \in 1..Len(v) : v[k] \in Digits

\* value of the first header called name, or None
RECURSIVE Lookup(_, _)
Lookup(headers, name) ==
    IF headers = <<>> THEN None
    ELSE IF Head(headers)[1] = name THEN Some(Head(headers)[2])
    ELSE Lookup(Tail(headers), name)

ContentLengthName == <<"l">>

\* the body length the headers declare, if they declare an integer
get_content_length(headers) ==
    LET h == Lookup(headers, ContentLengthName) IN
    IF h.kind = "Some" /\ IsInteger(h.val) THEN Some(NatOf(h.val, 0)) ELSE None

\* position of the first terminator at or after i, 0 if there is none
RECURSIVE FindNul(_, _)
FindNul(s, i) ==
    IF i > Len(s) THEN 0 ELSE IF s[i] = NUL THEN i ELSE FindNul(s, i + 1)

\* body and terminator from position i
ParseBody(s, i, command, headers) ==
    LET cl  == get_content_length(headers)
        nul == FindNul(s, i)
        end == IF cl.kind = "Some" THEN i + cl.val ELSE nul
    IN  IF cl.kind = "None" /\ nul = 0 THEN Incomplete
        ELSE IF end > Len(s) THEN Incomplete
        ELSE IF s[end] # NUL THEN ParseError("missing terminator")
        ELSE [kind   |-> "Ok",
              remain |-> SubSeq(s, end + 1, Len(s)),
              frame  |-> [command |-> command,
                          headers |-> headers,
                          body    |-> SubSeq(s, i, end - 1)]]

\* one frame from the front of the input: the frame and the input left behind
\* it, Incomplete, or the grammar rule the input violates
parse_frame(input) ==
    LET c == SkipPadding(input, 1) IN
    IF c > Len(input) THEN Incomplete
    ELSE IF ~IsCommandByte(input[c]) THEN ParseError("unknown command")
    ELSE IF c + 1 > Len(input) THEN Incomplete
    ELSE IF input[c + 1] # LF THEN ParseError("command line")
    ELSE LET h == ParseHeaders(input, c + 2, <<>>) IN
         IF h.kind # "Ok" THEN h
         ELSE ParseBody(input, h.next, CommandOf(input[c]), h.headers)

-----------------------------------------------------------------------------
(* Frame serializer: Frame::serialize, from the wire format                *)

RECURSIVE Escape(_)
Escape(v) ==
    IF v = <<>> THEN <<>>
    ELSE (CASE Head(v) = COL -> <<BS, "c">>
            [] Head(v) = LF  -> <<BS, "n">>
            [] Head(v) = BS  -> <<BS, BS>>
            [] OTHER         -> <<Head(v)>>) \o Escape(Tail(v))

RECURSIVE HeaderLines(_)
HeaderLines(headers) ==
    IF headers = <<>> THEN <<>>
    ELSE Head(headers)[1] \o <<COL>> \o Escape(Head(headers)[2]) \o <<LF>>
         \o HeaderLines(Tail(headers))

\* command line, header lines, blank line, body, terminator
WireBytes(frame) ==
    <<CommandByte(frame.command), LF>> \o HeaderLines(frame.headers) \o <<LF>>
    \o frame.body \o <<NUL>>

RECURSIVE Decimal(_)
Decimal(n) ==
    IF n < 10 THEN <<CHOOSE d \in Digits : DigitValue(d) = n>>
    ELSE Append(Decimal(n \div 10), CHOOSE d \in Digits : DigitValue(d) = n % 10)

\* a frame with a body declares its length unless the headers already do
serialize(frame) ==
    IF frame.body # <<>> /\ Lookup(frame.headers, ContentLengthName).kind = "None"
    THEN WireBytes([frame EXCEPT !.headers =
                        Append(@, <<ContentLengthName, Decimal(Len(frame.body))>>)])
    ELSE WireBytes(frame)

-----------------------------------------------------------------------------
(* Message model: Message::<FromServer>::from_frame, from the message model *)

VersionName     == <<"v">>
DestinationName == <<"d">>

MappingError(why) == [kind |-> "Err", error |-> [type |-> "Mapping", why |-> why]]
Mapped(content, extra) ==
    [kind |-> "Ok", msg |-> [content |-> content, extra_headers |-> extra]]

\* the headers without the first header called name
RECURSIVE RemoveFirst(_, _)
RemoveFirst(headers, name) ==
    IF headers = <<>> THEN <<>>
    ELSE IF Head(headers)[1] = name THEN Tail(headers)
    ELSE <<Head(headers)>> \o RemoveFirst(Tail(headers), name)

from_frame(frame) ==
    LET cl    == Lookup(frame.headers, ContentLengthName)
        rest  == RemoveFirst(frame.headers, ContentLengthName)
        ver   == Lookup(frame.headers, VersionName)
        dest  == Lookup(frame.headers, DestinationName)
    IN  IF frame.command \notin ServerCommands
        THEN MappingError("command of the other direction")
        ELSE IF cl.kind = "Some" /\ ~IsInteger(cl.val)
        THEN MappingError("malformed content-length")
        ELSE CASE frame.command = "CONNECTED" ->
                    IF ver.kind = "None" THEN MappingError("missing version")
                    ELSE Mapped([type |-> "Connected", version |-> ver.val],
                                RemoveFirst(rest, VersionName))
               [] frame.command = "ERROR" ->
                    Mapped([type |-> "Error", body |-> frame.body], rest)
               [] frame.command = "MESSAGE" ->
                    IF dest.kind = "None" THEN MappingError("missing destination")
                    ELSE Mapped([type |-> "Message", destination |-> dest.val,
                                 body |-> frame.body],
                                RemoveFirst(rest, DestinationName))

-----------------------------------------------------------------------------
(* ClientCodec::decode                                                     *)

Ok(v)  == [kind |-> "Ok", val |-> v]
Err(e) == [kind |-> "Err", error |-> e]

\* the offset taken for the whole buffer
decode_offset_whole_buffer(src, remain) == Len(src)

\* remain.as_ptr() - src.as_ptr(): remain is the tail of src left by the parser
\* the offset, were it taken one byte short of the rest
decode_offset_short(src, remain) == Len(src) - Len(remain) - 1

decode_offset(src, remain) == Len(src) - Len(remain)

\* a parse error that skips a byte to look for the next frame
decode_parse_failed_skips(src, e) ==
    [res |-> Err([type |-> "Parse", rule |-> e.rule]), src |-> Tail(src)]

\* Err(e) => anyhow::bail!("Parse failed: {:?}", e)
decode_parse_failed(src, e) ==
    [res |-> Err([type |-> "Parse", rule |-> e.rule]), src |-> src]

\* an incomplete frame that is thrown away
decode_incomplete_clears(src) == [res |-> Ok(None), src |-> <<>>]

\* an incomplete frame that is taken for a malformed one
decode_incomplete_is_error(src) ==
    [res |-> Err([type |-> "Parse", rule |-> "incomplete"]), src |-> src]

\* Err(nom::Err::Incomplete(_)) => return Ok(None)
decode_incomplete(src) == [res |-> Ok(None), src |-> src]

\* a mapping error that is dropped
decode_item_drops_error(item) == IF item.kind = "Ok" THEN Ok(Some(item.msg)) ELSE Ok(None)

\* item.map(|v| Some(v))
decode_item(item) == IF item.kind = "Ok" THEN Ok(Some(item.msg)) ELSE item

\* decode of a frame, were the buffer advanced only when the mapping succeeds
decode_frame_advances_on_success(src, remain, frame) ==
    [res |-> decode_item(from_frame(frame)),
     src |-> IF from_frame(frame).kind = "Ok"
             THEN advance(src, decode_offset(src, remain)) ELSE src]

\* decode of a frame, were the whole buffer given up with the frame
decode_frame_drops_rest(src, remain, frame) ==
    [res |-> decode_item(from_frame(frame)),
     src |-> <<>>]

\* Ok((remain, frame)): map the frame, advance the buffer, return the item
decode_frame(src, remain, frame) ==
    [res |-> decode_item(from_frame(frame)),
     src |-> advance(src, decode_offset(src, remain))]

\* the result and the buffer after the call
decode(src) ==
    LET r == parse_frame(src) IN
    CASE r.kind = "Ok"         -> decode_frame(src, r.remain, r.frame)
      [] r.kind = "Incomplete" -> decode_incomplete(src)
      [] r.kind = "Error"      -> decode_parse_failed(src, r)

-----------------------------------------------------------------------------
(* Framed<TcpStream, ClientCodec>: the stream side used by transport.next() *)

\* Decoder::decode_eof: decode, and bytes left behind at the end are an error
decode_eof(src) ==
    LET d == decode(src) IN
    IF d.res = Ok(None) /\ d.src # <<>>
    THEN [res |-> Err([type |-> "Io", why |-> "bytes remaining on stream"]),
          src |-> d.src]
    ELSE d

\* what a decode result makes the stream yield: an item, or nothing yet
ItemMsg(m) == [kind |-> "Msg", msg |-> m]
ItemErr(e) == [kind |-> "Err", error |-> e]
ItemEnd    == [kind |-> "End"]

-----------------------------------------------------------------------------
(* client_handshake                                                        *)

ProtocolVersion == <<"1", ".", "2">>
AcceptVersionName == <<"a">>
HostName     == <<"h">>
LoginName    == <<"g">>
PasscodeName == <<"p">>

OptHeader(name, opt) == IF opt.kind = "Some" THEN <<<<name, opt.val>>>> ELSE <<>>

\* the CONNECT message client_handshake builds
\* the CONNECT, were the credentials left out of it
connect_message_anonymous(host, login, passcode, headers) ==
    [content |-> [type           |-> "Connect",
                  accept_version |-> ProtocolVersion,
                  host           |-> host,
                  login          |-> None,
                  passcode       |-> None,
                  heartbeat      |-> None,
                  headers        |-> headers],
     extra_headers |-> <<>>]

connect_message(host, login, passcode, headers) ==
    [content |-> [type           |-> "Connect",
                  accept_version |-> ProtocolVersion,
                  host           |-> host,
                  login          |-> login,
                  passcode       |-> passcode,
                  heartbeat      |-> None,
                  headers        |-> headers],
     extra_headers |-> <<>>]

IdName  == <<"i">>
AckName == <<"k">>

\* subscribe_with_headers(dest, id, headers): a Subscribe with no ack
subscribe_with_headers(dest, id, headers) ==
    [content |-> [type        |-> "Subscribe",
                  destination |-> dest,
                  id          |-> id,
                  ack         |-> None,
                  headers     |-> headers],
     extra_headers |-> <<>>]

\* subscribe(dest, id): a Subscribe with no ack and no headers
subscribe(dest, id) == subscribe_with_headers(dest, id, <<>>)

\* a Send to a destination, with a body
send_message(dest, body) ==
    [content |-> [type        |-> "Send",
                  destination |-> dest,
                  body        |-> body,
                  headers     |-> <<>>],
     extra_headers |-> <<>>]

\* Message::<ToServer>::to_frame: the command of the variant, its fields as
\* headers, then the headers it carries, then the extra headers
to_frame(msg) ==
    CASE msg.content.type = "Connect" ->
           [command |-> "CONNECT",
            headers |-> <<<<AcceptVersionName, msg.content.accept_version>>,
                          <<HostName, msg.content.host>>>>
                        \o OptHeader(LoginName, msg.content.login)
                        \o OptHeader(PasscodeName, msg.content.passcode)
                        \o msg.content.headers
                        \o msg.extra_headers,
            body    |-> <<>>]
      [] msg.content.type = "Subscribe" ->
           [command |-> "SUBSCRIBE",
            headers |-> <<<<DestinationName, msg.content.destination>>,
                          <<IdName, msg.content.id>>>>
                        \o OptHeader(AckName, msg.content.ack)
                        \o msg.content.headers
                        \o msg.extra_headers,
            body    |-> <<>>]
      [] msg.content.type = "Send" ->
           [command |-> "SEND",
            headers |-> <<<<DestinationName, msg.content.destination>>>>
                        \o msg.content.headers
                        \o msg.extra_headers,
            body    |-> msg.content.body]

\* encode, were it to put the frame into the buffer twice
encode_twice(item, dst) ==
    dst \o serialize(to_frame(item)) \o serialize(to_frame(item))

\* encode, were it to start the buffer afresh
encode_overwrites(item, dst) == serialize(to_frame(item))

\* ClientCodec::encode: item.to_frame().serialize(dst)
encode(item, dst) == dst \o serialize(to_frame(item))

\* an unexpected-reply error that leaves the reply out
UnexpectedReply_without_reply(msg) == Err([type |-> "UnexpectedReply", msg |-> None])

\* "Handshake error, unexpected reply: {:?}" with the reply, if any
UnexpectedReply(msg) == Err([type |-> "UnexpectedReply", msg |-> msg])

\* a handshake that takes any message for the CONNECTED
handshake_reply_any_message(item) ==
    CASE item.kind = "Err" -> Err(item.error)
      [] item.kind = "End" -> Err([type |-> "UnexpectedReply", msg |-> None])
      [] item.kind = "Msg" -> Ok("Ready")

\* a handshake that takes the end of the stream for a success
handshake_reply_end_is_ready(item) ==
    CASE item.kind = "Err" -> Err(item.error)
      [] item.kind = "End" -> Ok("Ready")
      [] item.kind = "Msg" ->
            IF item.msg.content.type = "Connected" THEN Ok("Ready")
            ELSE Err([type |-> "UnexpectedReply", msg |-> Some(item.msg)])

\* a handshake that reports a decode error as an unexpected reply
handshake_reply_masks_error(item) ==
    CASE item.kind = "Err" -> Err([type |-> "UnexpectedReply", msg |-> None])
      [] item.kind = "End" -> Err([type |-> "UnexpectedReply", msg |-> None])
      [] item.kind = "Msg" ->
            IF item.msg.content.type = "Connected" THEN Ok("Ready")
            ELSE Err([type |-> "UnexpectedReply", msg |-> Some(item.msg)])

\* what client_handshake returns for the first item of the transport:
\* transport.next().await.transpose()? and the match on the reply
handshake_reply(item) ==
    CASE item.kind = "Err" -> Err(item.error)
      [] item.kind = "End" -> UnexpectedReply(None)
      [] item.kind = "Msg" ->
            IF item.msg.content.type = "Connected" THEN Ok("Ready")
            ELSE UnexpectedReply(Some(item.msg))

-----------------------------------------------------------------------------
(* What the server sends                                                   *)

Fr(c, h, b) == [command |-> c, headers |-> h, body |-> b]
FrameUnit(f) == [kind |-> "frame", frame |-> f, bytes |-> WireBytes(f)]
RawUnit(g)   == [kind |-> "raw", bytes |-> g]

ServerFrames ==
    { Fr("CONNECTED", <<<<VersionName, ProtocolVersion>>>>, <<>>),
      Fr("CONNECTED", <<>>, <<>>),
      Fr("CONNECTED", <<<<VersionName, <<"1">>>>, <<<<"x">>, <<COL, BS>>>>,
                        <<VersionName, <<"2">>>>>>, <<>>),
      Fr("ERROR", <<>>, <<"x">>),
      Fr("ERROR", <<<<ContentLengthName, <<"1">>>>>>, <<NUL>>),
      Fr("ERROR", <<<<ContentLengthName, <<"x">>>>>>, <<>>),
      Fr("ERROR", <<<<ContentLengthName, <<"2">>>>>>, <<"x">>),
      Fr("ERROR", <<>>, <<NUL>>),
      Fr("MESSAGE", <<<<DestinationName, <<"x">>>>>>, <<"x", LF>>),
      Fr("MESSAGE", <<>>, <<>>),
      Fr("SEND", <<<<DestinationName, <<"x">>>>>>, <<>>) }

RawBytes ==
    { <<LF>>, <<"x">>, <<NUL>>,
      <<"C", "x">>,
      <<"E", LF, "x", LF>>,
      <<"C", LF, VersionName[1], COL, BS, "x">>,
      <<"E", LF, COL>> }

Units == {FrameUnit(f) : f \in ServerFrames} \cup {RawUnit(g) : g \in RawBytes}

\* frames every script may begin with: a CONNECTED and a MESSAGE
LeadFrames ==
    { Fr("CONNECTED", <<<<VersionName, ProtocolVersion>>>>, <<>>),
      Fr("MESSAGE", <<<<DestinationName, <<"x">>>>>>, <<"x">>) }

MaxFrames == 2

RECURSIVE Leads(_)
Leads(n) ==
    IF n = 0 THEN {<<>>}
    ELSE LET shorter == Leads(n - 1) IN
         shorter \cup {Append(s, FrameUnit(f)) : s \in shorter, f \in LeadFrames}

\* up to MaxFrames lead frames, then nothing or any one unit
Scripts ==
    {lead \o tail : lead \in Leads(MaxFrames), tail \in {<<>>} \cup {<<u>> : u \in Units}}

Stream(sc) == Flatten([i \in 1..Len(sc) |-> sc[i].bytes])

\* what the caller of connect supplies
Hosts       == {<<"x">>}
Logins      == {None, Some(<<"x">>)}
Passcodes   == {None, Some(<<"x", COL>>)}
HeaderLists == {<<>>, <<<<<<"x">>, <<"2">>>>, <<<<"y">>, <<LF>>>>, <<<<"x">>, <<"1">>>>>>}

\* address.to_socket_addrs(): the addresses, none, or an error
Resolutions == {"Ok", "Empty", "Err"}
Addresses == {[text |-> h, resolves |-> r] : h \in Hosts, r \in Resolutions}

Call(via, address, login, passcode, headers) ==
    [via |-> via, address |-> address, login |-> login, passcode |-> passcode,
     headers |-> headers]

\* connect(address, login, passcode) has no headers of the caller's
ConnectCalls ==
    {Call("connect", a, l, p, <<>>) : a \in Addresses, l \in Logins, p \in Passcodes}

\* connect_with_headers(address, login, passcode, headers)
ConnectWithHeadersCalls ==
    {Call("connect_with_headers", a, l, p, h) :
        a \in Addresses, l \in Logins, p \in Passcodes, h \in HeaderLists}

Calls == ConnectCalls \cup ConnectWithHeadersCalls

\* the calls the server scripts are run against: connect, with the login and
\* the passcode both absent or both present
ScriptedCalls ==
    {c \in ConnectCalls : (c.login = None) <=> (c.passcode = None)}

\* the headers handed to client_handshake: vec![] from connect
handshake_headers(call) ==
    IF call.via = "connect" THEN <<>> ELSE call.headers

\* the CONNECT of a call: host is address.to_string()
handshake_message(call) ==
    connect_message(call.address.text, call.login, call.passcode,
                    handshake_headers(call))

\* ClientCodec::encode returns Ok(()) whatever the item
encode_result(item, dst) == Ok("()")

\* client_handshake borrows the transport and returns it as it is
client_handshake_transport(transport, r) == transport

\* connect, were it to hand the transport on whatever the handshake returned
connect_transport_keeps(transport, r) == transport

\* connect: client_handshake(..).await? then Ok(transport); on Err the
\* transport, a local of connect, is dropped and nothing is handed back
connect_transport(transport, r) == IF r.kind = "Ok" THEN transport ELSE "dropped"

-----------------------------------------------------------------------------
(* The state machine                                                       *)

NoCall == [kind |-> "NoCall"]

\* connect is called; nothing has happened yet
Start(calls, scripts) ==
    /\ args \in calls
    /\ script \in scripts
    /\ wire = Stream(script)
    /\ buf = <<>>
    /\ readable = FALSE
    /\ eof = FALSE
    /\ pc = "Connecting"
    /\ outcome = None
    /\ items = <<>>
    /\ last = NoCall
    /\ out = <<>>
    /\ sock = "none"
    /\ bytewise = TRUE
    /\ sent = <<>>
    /\ hsock = "none"

Init == Start(ScriptedCalls, Scripts)

\* address.to_socket_addrs().unwrap().next().unwrap() on an address that
\* does not resolve: the unwrap panics
ResolvePanics ==
    /\ pc = "Connecting"
    /\ args.address.resolves # "Ok"
    /\ pc' = "Panicked"
    /\ outcome' = [kind |-> "Panic", why |-> args.address.resolves]
    /\ UNCHANGED <<script, wire, buf, readable, eof, items, last, out, sock,
                   bytewise, args, sent, hsock>>

\* TcpStream::connect(&addr).await? fails: connect returns the error
TcpConnectFails ==
    /\ pc = "Connecting"
    /\ args.address.resolves = "Ok"
    /\ pc' = "ConnectFailed"
    /\ outcome' = Err([type |-> "Io", why |-> "connect"])
    /\ UNCHANGED <<script, wire, buf, readable, eof, items, last, out, sock,
                   bytewise, args, sent, hsock>>

\* TcpStream::connect succeeds and ClientCodec.framed(tcp) is the transport
TcpConnected ==
    /\ pc = "Connecting"
    /\ args.address.resolves = "Ok"
    /\ pc' = "Unauthenticated"
    /\ sock' = "open"
    /\ UNCHANGED <<script, wire, buf, readable, eof, outcome, items, last, out,
                   bytewise, args, sent, hsock>>

\* transport.send(connect).await succeeds: the CONNECT is encoded and flushed
SendConnect ==
    /\ pc = "Unauthenticated"
    /\ LET connect == handshake_message(args) IN
       /\ out' = encode(connect, out)
       /\ sent' = Append(sent, [item |-> connect, res |-> encode_result(connect, out)])
    /\ pc' = "AwaitingConnected"
    /\ UNCHANGED <<script, wire, buf, readable, eof, outcome, items, last,
                   sock, bytewise, args, hsock>>

\* the write error of a failed send
WriteError == [type |-> "Io", why |-> "write"]

\* a failed send, were the handshake to go on to await the reply
SendFails_then_awaits ==
    /\ pc = "Unauthenticated"
    /\ pc' = "AwaitingConnected"
    /\ LET connect == handshake_message(args) IN
       sent' = Append(sent, [item |-> connect, res |-> encode_result(connect, out)])
    /\ outcome' = Err(WriteError)
    /\ UNCHANGED <<script, wire, buf, readable, eof, items, last, out, sock,
                   bytewise, args, hsock>>

\* transport.send(connect).await? fails with a transport error: the CONNECT
\* was encoded, the write failed, and the error is returned at once
SendFails ==
    /\ pc = "Unauthenticated"
    /\ pc' = "Failed"
    /\ LET connect == handshake_message(args) IN
       sent' = Append(sent, [item |-> connect, res |-> encode_result(connect, out)])
    /\ LET r == Err(WriteError) IN
       /\ outcome' = r
       /\ hsock' = client_handshake_transport(sock, r)
       /\ sock' = connect_transport(hsock', r)
    /\ UNCHANGED <<script, wire, buf, readable, eof, items, last, out, bytewise,
                   args>>

\* someone is awaiting transport.next(): the handshake, or the caller of
\* connect once the handshake has succeeded and the stream has not ended
Polling ==
    \/ pc = "AwaitingConnected"
    \/ pc = "Ready" /\ items[Len(items)].kind = "Msg"

\* the stream yields its end, were the waiting handshake to overlook it
Yield_overlooks_end(item) ==
    IF item.kind = "End" /\ pc = "AwaitingConnected"
    THEN UNCHANGED <<items, pc, outcome, sock, hsock>>
    ELSE /\ items' = Append(items, item)
         /\ IF pc = "AwaitingConnected"
            THEN LET r == handshake_reply(item) IN
                 /\ outcome' = r
                 /\ pc' = IF r.kind = "Ok" THEN "Ready" ELSE "Failed"
                 /\ hsock' = client_handshake_transport(sock, r)
                 /\ sock' = connect_transport(hsock', r)
            ELSE UNCHANGED <<pc, outcome, sock, hsock>>

\* the stream yields an item. The handshake, if it is the one waiting,
\* returns; connect hands the transport back on Ok and drops it on Err
Yield(item) ==
    /\ items' = Append(items, item)
    /\ IF pc = "AwaitingConnected"
       THEN LET r == handshake_reply(item) IN
            /\ outcome' = r
            /\ pc' = IF r.kind = "Ok" THEN "Ready" ELSE "Failed"
            /\ hsock' = client_handshake_transport(sock, r)
            /\ sock' = connect_transport(hsock', r)
       ELSE UNCHANGED <<pc, outcome, sock, hsock>>

\* poll_next with is_readable set: one call of decode (decode_eof at the end)
PollDecode ==
    /\ Polling
    /\ readable
    /\ LET d == IF eof THEN decode_eof(buf) ELSE decode(buf) IN
       /\ buf' = d.src
       /\ last' = [kind |-> "Call", src |-> buf, res |-> decode(buf).res, after |-> d.src]
       /\ \/ /\ d.res.kind = "Ok" /\ d.res.val.kind = "Some"
             /\ Yield(ItemMsg(d.res.val.val))
             /\ UNCHANGED readable
          \/ /\ d.res.kind = "Ok" /\ d.res.val.kind = "None" /\ ~eof
             /\ readable' = FALSE
             /\ UNCHANGED <<pc, outcome, items, sock, hsock>>
          \/ /\ d.res.kind = "Ok" /\ d.res.val.kind = "None" /\ eof
             /\ readable' = FALSE
             /\ Yield(ItemEnd)
          \/ /\ d.res.kind = "Err"
             /\ Yield(ItemErr(d.res.error))
             /\ UNCHANGED readable
    /\ UNCHANGED <<script, wire, eof, out, bytewise, args, sent>>

\* poll_next reads: the socket hands over some of the bytes in flight
PollRead ==
    /\ Polling
    /\ ~readable /\ ~eof
    /\ \E n \in 1..Len(wire) :
          /\ buf' = buf \o SubSeq(wire, 1, n)
          /\ wire' = SubSeq(wire, n + 1, Len(wire))
          /\ bytewise' = (bytewise /\ n = 1)
    /\ readable' = TRUE
    /\ UNCHANGED <<script, eof, pc, outcome, items, last, out, sock, args, sent, hsock>>

\* poll_next reads 0 bytes: the server has closed its side, and what it had
\* not sent yet never arrives
PollReadEof ==
    /\ Polling
    /\ ~readable /\ ~eof
    /\ eof' = TRUE
    /\ readable' = TRUE
    /\ UNCHANGED <<script, wire, buf, pc, outcome, items, last, out, sock, bytewise,
                   args, sent, hsock>>

\* poll_next's read fails: the error is the item
PollReadError ==
    /\ Polling
    /\ ~readable /\ ~eof
    /\ Yield(ItemErr([type |-> "Io", why |-> "read"]))
    /\ UNCHANGED <<script, wire, buf, readable, eof, last, out, bytewise, args, sent>>

Next ==
    \/ ResolvePanics
    \/ TcpConnectFails
    \/ TcpConnected
    \/ SendConnect
    \/ SendFails
    \/ PollDecode
    \/ PollRead
    \/ PollReadEof
    \/ PollReadError

Spec == Init /\ [][Next]_vars

\* the runtime resumes connect when the resolver and the socket answer, the
\* handshake when the transport takes the CONNECT or reports the write
\* error, and whoever awaits transport.next() when the socket has bytes, has
\* ended or has failed
Connecting == ResolvePanics \/ TcpConnectFails \/ TcpConnected
Sending == SendConnect \/ SendFails
Receiving == PollDecode \/ PollRead \/ PollReadEof \/ PollReadError
\* ENABLED <<Receiving>>_vars: someone is polling, and there is a decode to
\* call or a read to make
ReceivingEnabled == Polling /\ (readable \/ ~eof)

\* weak fairness of the three, the last with its enabling condition spelled out
Fairness ==
    /\ WF_vars(Connecting)
    /\ WF_vars(Sending)
    /\ []<>(~ReceivingEnabled) \/ []<><<Receiving>>_vars
FairSpec == Init /\ [][Next]_vars /\ Fairness

\* every call of connect and connect_with_headers, against a server that
\* sends nothing or one unit
CallScripts == {<<>>} \cup {<<u>> : u \in Units}
InitCalls == Start(Calls, CallScripts)
SpecCalls == InitCalls /\ [][Next]_vars

-----------------------------------------------------------------------------
(* Quantities the properties are stated with                               *)

\* the bytes the socket has handed over, and how many decode has consumed
Received == Len(Stream(script)) - Len(wire)
Consumed == Received - Len(buf)

\* the parser's and the mapping's verdict on the buffer of the last decode call
LastParse == parse_frame(last.src)
LastItem  == from_frame(LastParse.frame)

\* a frame as the grammar wants it: the declared length is the body's length,
\* and a body of undeclared length holds no terminator
WellFormed(f) ==
    LET cl == Lookup(f.headers, ContentLengthName) IN
    IF cl.kind = "Some"
    THEN IsInteger(cl.val) /\ NatOf(cl.val, 0) = Len(f.body)
    ELSE \A k \in 1..Len(f.body) : f.body[k] # NUL

GoodUnit(u) == u.kind = "frame" /\ WellFormed(u.frame) /\ from_frame(u.frame).kind = "Ok"

\* the script begins with n well-formed frames of the server's vocabulary
GoodUpTo(n) == n <= Len(script) /\ \A i \in 1..n : GoodUnit(script[i])

RECURSIVE UnitsLen(_, _)
UnitsLen(sc, n) == IF n = 0 THEN 0 ELSE UnitsLen(sc, n - 1) + Len(sc[n].bytes)

AllMessages == \A i \in 1..Len(items) : items[i].kind = "Msg"

-----------------------------------------------------------------------------
(* ClientCodec on its own: encode and decode called on buffers directly     *)

\* the messages a client hands to encode
Destinations == {<<"x">>, <<"x", COL, BS, LF>>}
Bodies == {<<"x">>, <<NUL, "x">>}
ToServerMessages ==
    {handshake_message(c) : c \in {k \in Calls : k.address.resolves = "Ok"}}
    \cup {subscribe(d, <<"1">>) : d \in Destinations}
    \cup {subscribe_with_headers(d, <<"1">>, h) : d \in Destinations, h \in HeaderLists}
    \cup {send_message(<<"x">>, b) : b \in Bodies}

MaxEncodes == 2

RECURSIVE MessageLists(_)
MessageLists(n) ==
    IF n = 0 THEN {<<>>}
    ELSE LET shorter == MessageLists(n - 1) IN
         shorter \cup {Append(l, m) : l \in shorter, m \in ToServerMessages}

\* what the output buffer holds before the first encode
InitialBuffers == {<<>>, <<LF>>}

\* the frames a server sends that the mapping rejects, each followed by one
\* it accepts
RejectedFrames == {f \in ServerFrames : WellFormed(f) /\ from_frame(f).kind = "Err"}
RejectedThenGood ==
    {<<FrameUnit(f), FrameUnit(g)>> : f \in RejectedFrames, g \in LeadFrames}

CodecUse(dst, messages) == [via |-> "codec", dst |-> dst, messages |-> messages]

\* a codec, an output buffer and the messages to encode into it, or an input
\* buffer that the bytes of a script arrive in
InitCodec ==
    /\ \/ /\ args \in {CodecUse(b, l) : b \in InitialBuffers, l \in MessageLists(MaxEncodes)}
          /\ script = <<>>
       \/ /\ args = CodecUse(<<>>, <<>>)
          /\ script \in RejectedThenGood
    /\ wire = Stream(script)
    /\ buf = <<>>
    /\ readable = FALSE
    /\ eof = FALSE
    /\ pc = "Codec"
    /\ outcome = None
    /\ items = <<>>
    /\ last = NoCall
    /\ out = args.dst
    /\ sock = "none"
    /\ bytewise = TRUE
    /\ sent = <<>>
    /\ hsock = "none"

\* encode(item, dst) with the next message
Encode ==
    /\ pc = "Codec"
    /\ Len(sent) < Len(args.messages)
    /\ buf = <<>> /\ last = NoCall
    /\ LET item == args.messages[Len(sent) + 1] IN
       /\ out' = encode(item, out)
       /\ sent' = Append(sent, [item |-> item, res |-> encode_result(item, out)])
    /\ UNCHANGED <<script, wire, buf, readable, eof, pc, outcome, items, last,
                   sock, bytewise, args, hsock>>

\* the bytes encode produced become the buffer decode is called on
Echo ==
    /\ pc = "Codec"
    /\ sent # <<>>
    /\ buf = <<>> /\ last = NoCall
    /\ buf' = out
    /\ readable' = TRUE
    /\ UNCHANGED <<script, wire, eof, pc, outcome, items, last, out, sock,
                   bytewise, args, sent, hsock>>

\* bytes of the script arrive in the buffer decode is called on
Feed ==
    /\ pc = "Codec"
    /\ \E n \in 1..Len(wire) :
          /\ buf' = buf \o SubSeq(wire, 1, n)
          /\ wire' = SubSeq(wire, n + 1, Len(wire))
          /\ bytewise' = (bytewise /\ n = 1)
    /\ readable' = TRUE
    /\ UNCHANGED <<script, eof, pc, outcome, items, last, out, sock, args, sent, hsock>>

\* decode(src) on the buffer: the caller keeps what decode returns and
\* calls again unless it was told to wait for bytes or the parse failed
Decode ==
    /\ pc = "Codec"
    /\ readable
    /\ LET d == decode(buf) IN
       /\ buf' = d.src
       /\ last' = [kind |-> "Call", src |-> buf, res |-> d.res, after |-> d.src]
       /\ \/ /\ d.res.kind = "Ok" /\ d.res.val.kind = "Some"
             /\ items' = Append(items, ItemMsg(d.res.val.val))
             /\ UNCHANGED readable
          \/ /\ d.res.kind = "Ok" /\ d.res.val.kind = "None"
             /\ readable' = FALSE
             /\ UNCHANGED items
          \/ /\ d.res.kind = "Err"
             /\ items' = Append(items, ItemErr(d.res.error))
             /\ readable' = (d.src # buf)
    /\ UNCHANGED <<script, wire, eof, pc, outcome, out, sock, bytewise, args,
                   sent, hsock>>

NextCodec ==
    \/ Encode
    \/ Echo
    \/ Feed
    \/ Decode

SpecCodec == InitCodec /\ [][NextCodec]_vars

-----------------------------------------------------------------------------
(* ClientCodec::decode                                                     *)

\* C1: a decode call that finds a complete well-formed frame of the server's
\* vocabulary at the front of the buffer returns that frame's message and
\* removes exactly the bytes the parser consumed, no more than the buffer
\* holds; the bytes behind the frame stay, unchanged and in order.
C1_DecodeConsumesExactlyTheFrame ==
    (last.kind = "Call" /\ LastParse.kind = "Ok" /\ LastItem.kind = "Ok") =>
        LET n == Len(last.src) - Len(LastParse.remain) IN
        /\ last.res = Ok(Some(LastItem.msg))
        /\ n >= 1 /\ n <= Len(last.src)
        /\ Len(last.after) = Len(last.src) - n
        /\ last.after = SubSeq(last.src, n + 1, Len(last.src))
        /\ last.after = LastParse.remain

C1_Witness ==
    /\ last.kind = "Call" /\ LastParse.kind = "Ok" /\ LastItem.kind = "Ok"
    /\ last.res.kind = "Ok" /\ last.res.val.kind = "Some"
    /\ Len(last.after) >= 2
    /\ buf = last.after

\* C2: when the parser reports Incomplete, decode returns Ok(None) and the
\* buffer after the call holds the same bytes as before it.
C2_IncompleteLeavesBuffer ==
    (last.kind = "Call" /\ LastParse.kind = "Incomplete") =>
        /\ last.res = Ok(None)
        /\ last.after = last.src

C2_Witness ==
    /\ last.kind = "Call" /\ LastParse.kind = "Incomplete"
    /\ Len(last.src) >= 3
    /\ buf = last.src /\ ~readable

\* C3: while the script is a run of well-formed frames, the messages yielded
\* are those frames' messages in the order of the frames, one per decode call;
\* after k of them exactly the first k frames' bytes are consumed, and the
\* buffer holds, untouched, every byte received behind them.
C3_FramesDecodeInOrder ==
    /\ \A i \in 1..Len(items) :
          (items[i].kind = "Msg" /\ GoodUpTo(i)) =>
              items[i] = ItemMsg(from_frame(script[i].frame).msg)
    /\ (AllMessages /\ GoodUpTo(Len(items))) =>
          /\ Consumed = UnitsLen(script, Len(items))
          /\ (~readable /\ Len(items) < Len(script) /\ GoodUnit(script[Len(items) + 1])) =>
                Received < UnitsLen(script, Len(items) + 1)
    /\ Consumed >= 0
    /\ buf = SubSeq(Stream(script), Consumed + 1, Received)

C3_Witness ==
    /\ Len(items) = 2 /\ AllMessages /\ GoodUpTo(3)
    /\ items[1].msg.content.type = "Connected"
    /\ items[2].msg.content.type = "Message"
    /\ script[3].frame.command = "ERROR"
    /\ last.kind = "Call" /\ last.src = script[2].bytes \o script[3].bytes
    /\ buf = script[3].bytes

\* C4: a valid frame that arrives in fragments, byte by byte or split in any
\* other way, gives Ok(None) on every decode call made before its last byte
\* is there and consumes nothing; the call that sees the last byte yields the
\* message one decode call over the whole frame yields, and the bytes
\* consumed in all are the frame's length.
C4_FragmentsDecodeLikeTheWhole ==
    GoodUpTo(1) =>
        LET whole == script[1].bytes
            once  == decode(whole)
        IN  /\ once.res.kind = "Ok" /\ once.res.val.kind = "Some" /\ once.src = <<>>
            /\ Received < Len(whole) =>
                  /\ last.kind = "Call" => last.res = Ok(None)
                  /\ \A i \in 1..Len(items) : items[i].kind # "Msg"
                  /\ Consumed = 0
            /\ (Received >= Len(whole) /\ ~readable) => items # <<>>
            /\ (Received >= Len(whole) /\ items # <<>>) =>
                  items[1] = ItemMsg(once.res.val.val)
            /\ Len(items) = 1 /\ items[1].kind = "Msg" => Consumed = Len(whole)

C4_Witness ==
    /\ GoodUpTo(1) /\ Len(script) = 1
    /\ bytewise
    /\ Len(script[1].bytes) >= 10
    /\ Received = Len(script[1].bytes)
    /\ Len(items) = 1 /\ items[1].kind = "Msg"
    /\ last.src = script[1].bytes
    /\ buf = <<>>

\* C5: when the front of the buffer violates the grammar, decode returns the
\* parse error and the buffer after the call holds the same bytes as before:
\* nothing is skipped to reach a later frame.
C5_ParseErrorConsumesNothing ==
    (last.kind = "Call" /\ LastParse.kind = "Error") =>
        /\ last.res = Err([type |-> "Parse", rule |-> LastParse.rule])
        /\ last.after = last.src
        /\ buf = last.src

C5_Witness ==
    /\ last.kind = "Call" /\ LastParse.kind = "Error"
    /\ last.res.kind = "Err"
    /\ Len(items) >= 2
    /\ Len(buf) >= 2

\* C6: decode returns a message only when the parser produced a frame and the
\* mapping of that frame succeeded, and then that very message; a parser error
\* and a mapping error are each returned as an error, which the stream yields
\* as its item, never as Ok(None) and never as a message.
C6_ErrorsAreReturned ==
    last.kind = "Call" =>
        /\ (last.res.kind = "Ok" /\ last.res.val.kind = "Some") =>
              /\ LastParse.kind = "Ok" /\ LastItem.kind = "Ok"
              /\ last.res.val.val = LastItem.msg
        /\ LastParse.kind = "Error" =>
              last.res = Err([type |-> "Parse", rule |-> LastParse.rule])
        /\ (LastParse.kind = "Ok" /\ LastItem.kind = "Err") =>
              last.res = Err(LastItem.error)
        /\ last.res.kind = "Err" =>
              /\ items # <<>>
              /\ items[Len(items)] = ItemErr(last.res.error)

C6_Witness ==
    /\ last.kind = "Call" /\ LastParse.kind = "Ok" /\ LastItem.kind = "Err"
    /\ last.res.kind = "Err" /\ last.res.error.type = "Mapping"
    /\ Len(items) = 2 /\ items[2].kind = "Err"

-----------------------------------------------------------------------------
(* client_handshake                                                        *)

\* C7: the handshake succeeds if and only if the first item of the transport
\* after the CONNECT was sent is a decoded CONNECTED message; on success the
\* caller holds the same transport, open, with its buffer, and can receive.
C7_ReadyIffConnectedFirst ==
    /\ pc = "Ready" <=>
          (out # <<>> /\ items # <<>> /\ items[1].kind = "Msg"
             /\ items[1].msg.content.type = "Connected")
    /\ pc = "Ready" <=> outcome = Ok("Ready")
    /\ pc = "Ready" => sock = "open"
    /\ (pc = "Ready" /\ Len(items) = 1) => Polling

C7_Witness ==
    /\ pc = "Ready" /\ outcome = Ok("Ready") /\ sock = "open"
    /\ Len(items) = 1 /\ items[1].msg.content.version = ProtocolVersion
    /\ buf # <<>>

\* C8: when the first inbound message is of any variant but CONNECTED, an
\* ERROR with whatever headers included, the handshake fails and the error
\* it returns carries the message received.
C8_OtherReplyFailsWithTheMessage ==
    (items # <<>> /\ items[1].kind = "Msg" /\ items[1].msg.content.type # "Connected") =>
        /\ pc = "Failed"
        /\ outcome.kind = "Err"
        /\ outcome.error.type = "UnexpectedReply"
        /\ outcome.error.msg = Some(items[1].msg)

C8_Witness ==
    /\ pc = "Failed"
    /\ items # <<>> /\ items[1].kind = "Msg" /\ items[1].msg.content.type = "Error"
    /\ items[1].msg.content.body # <<>>
    /\ outcome.kind = "Err" /\ outcome.error.type = "UnexpectedReply"

\* the kinds of error a decode failure and an unexpected reply are reported with
DecodeErrorTypes == {"Parse", "Mapping", "Io"}
ReplyErrorTypes  == {"UnexpectedReply"}

\* C9, as claimed: the end of the stream before any reply fails the handshake
\* with an error of a kind of its own, neither that of a decode failure nor
\* that of an unexpected reply.
C9_ClosedIsADistinctError ==
    (pc = "Failed" /\ items # <<>> /\ items[1].kind = "End") =>
        /\ outcome.kind = "Err"
        /\ outcome.error.type \notin DecodeErrorTypes \cup ReplyErrorTypes

\* C9, amended: the end of the stream before any reply, with nothing in the
\* buffer, fails the handshake with the unexpected-reply error carrying no
\* message, which differs from every decode error and from the unexpected-reply
\* error of a received message only in what it carries; with bytes of an
\* unfinished frame in the buffer the handshake fails with the transport's
\* "bytes remaining on stream" error.
C9_ClosedIsUnexpectedReplyNone ==
    /\ (items # <<>> /\ items[1].kind = "End") =>
          /\ pc = "Failed" /\ eof /\ buf = <<>>
          /\ outcome = UnexpectedReply(None)
          /\ outcome.error.type \notin DecodeErrorTypes
    /\ (items # <<>> /\ items[1].kind = "Msg" /\ pc = "Failed") =>
          outcome # UnexpectedReply(None)
    /\ (eof /\ Len(items) = 1 /\ items[1].kind = "Err"
          /\ last.kind = "Call" /\ last.res = Ok(None)) =>
          /\ pc = "Failed" /\ buf # <<>>
          /\ outcome = Err([type |-> "Io", why |-> "bytes remaining on stream"])

C9_Witness ==
    /\ pc = "Failed" /\ eof
    /\ items = <<ItemEnd>>
    /\ outcome = UnexpectedReply(None)
    /\ Received = 0 /\ script # <<>>

\* C10: when decoding the reply fails, on malformed bytes or on a mapping
\* error, the handshake fails with that decode error itself.
C10_DecodeErrorIsTheHandshakeError ==
    (Len(items) = 1 /\ last.kind = "Call" /\ last.res.kind = "Err") =>
        /\ pc = "Failed"
        /\ outcome = last.res
        /\ outcome.error.type \in {"Parse", "Mapping"}
        /\ outcome.error.type \notin ReplyErrorTypes

C10_Witness ==
    /\ pc = "Failed" /\ Len(items) = 1
    /\ last.kind = "Call" /\ last.res.kind = "Err"
    /\ outcome.kind = "Err" /\ outcome.error.type = "Mapping"
    /\ outcome.error.why = "missing version"

\* ---------------------------------------------------------------------
\* C11  one CONNECT, one reply, no way back

\* how often the byte b occurs in s
RECURSIVE CountByte(_, _)
CountByte(s, b) ==
    IF s = <<>> THEN 0
    ELSE (IF Head(s) = b THEN 1 ELSE 0) + CountByte(Tail(s), b)

\* the states of a handshake attempt and the moves the state machine names
HandshakeStates == {"Unauthenticated", "AwaitingConnected", "Ready", "Failed"}
HandshakeMoves ==
    {<<"Unauthenticated", "AwaitingConnected">>,
     <<"AwaitingConnected", "Ready">>,
     <<"AwaitingConnected", "Failed">>}

\* the CONNECT frames written to the socket
ConnectsSent == CountByte(out, NUL)

\* what was written is the CONNECT that was encoded, and nothing but a
\* CONNECT was encoded
OnlyConnects ==
    /\ Len(sent) <= 1
    /\ \A i \in 1..Len(sent) : sent[i].item.content.type = "Connect"
    /\ out # <<>> => Len(sent) = 1 /\ out = serialize(to_frame(sent[1].item))

\* nothing inbound has been awaited, read or decoded
NothingAwaited ==
    /\ items = <<>>
    /\ last = NoCall
    /\ Received = 0
    /\ buf = <<>>
    /\ ~readable /\ ~eof

\* C11 as stated: in one handshake attempt exactly one CONNECT is sent, and
\* it is sent before any inbound message is awaited; at most one inbound
\* message is taken; the attempt moves Unauthenticated -> AwaitingConnected
\* -> Ready or Failed and by no other move.
C11_ExactlyOneConnectOnEveryAttempt ==
    /\ [](/\ OnlyConnects
          /\ pc = "Unauthenticated" => ConnectsSent = 0 /\ NothingAwaited
          /\ pc \in {"AwaitingConnected", "Ready", "Failed"} => ConnectsSent = 1
          /\ pc \in {"AwaitingConnected"} => items = <<>>
          /\ pc = "Failed" => Len(items) <= 1)
    /\ [][/\ (pc \in HandshakeStates /\ pc' # pc) => <<pc, pc'>> \in HandshakeMoves
          /\ (pc = "AwaitingConnected" /\ items' # items) =>
                 Len(items') = 1 /\ pc' \in {"Ready", "Failed"}]_vars

\* C11 amended: at most one CONNECT is sent, before any inbound message is
\* awaited, and exactly one unless the send itself fails; a failed send
\* moves the attempt from Unauthenticated straight to Failed with nothing
\* sent and nothing awaited; otherwise the attempt moves Unauthenticated ->
\* AwaitingConnected -> Ready or Failed, taking exactly one inbound item on
\* the way, and it never retries, sends a second CONNECT or steps back.
C11_OneConnectOneReplyNoWayBack ==
    /\ [](/\ OnlyConnects
          /\ pc = "Unauthenticated" => sent = <<>> /\ ConnectsSent = 0 /\ NothingAwaited
          /\ pc \in {"AwaitingConnected", "Ready"} => ConnectsSent = 1
          /\ pc = "AwaitingConnected" => items = <<>> /\ outcome = None
          /\ pc = "Ready" => Len(items) >= 1
          /\ pc = "Failed" =>
                /\ Len(sent) = 1
                /\ Len(items) <= 1
                /\ (ConnectsSent = 0) <=> (outcome = Err(WriteError))
                /\ ConnectsSent = 0 => NothingAwaited
                /\ ConnectsSent # 0 => ConnectsSent = 1 /\ Len(items) = 1)
    /\ [][/\ (pc \in HandshakeStates /\ pc' # pc) =>
                 <<pc, pc'>> \in HandshakeMoves \cup {<<"Unauthenticated", "Failed">>}
          /\ (pc = "Unauthenticated" /\ pc' = "Failed") => out' = <<>>
          /\ (pc = "AwaitingConnected" /\ items' # items) =>
                 Len(items') = 1 /\ pc' \in {"Ready", "Failed"}
          /\ pc \in {"AwaitingConnected", "Ready", "Failed"} =>
                 sent' = sent /\ out' = out]_vars

\* an attempt that sent its one CONNECT, took its one reply and failed on it
C11_Witness ==
    /\ pc = "Failed"
    /\ Len(sent) = 1
    /\ out = serialize(to_frame(sent[1].item))
    /\ Len(items) = 1
    /\ items[1].kind = "Msg"

\* ---------------------------------------------------------------------
\* C12  who closes the transport of a failed handshake

\* the ways a handshake fails on what the transport yields
HandshakeFailedOnReply ==
    /\ pc = "Failed"
    /\ Len(items) = 1

\* C12 as stated: when the handshake fails the transport is not closed, the
\* connection is left open and its cleanup is left to the caller of connect
\* / connect_with_headers.
C12_FailedHandshakeLeavesConnectionOpen ==
    pc = "Failed" => sock = "open"

\* C12 amended: when the handshake fails, client_handshake returns the error
\* and leaves the transport it borrowed open; connect / connect_with_headers,
\* which own the transport, drop it as they return the error, so the
\* connection is closed and their caller is handed the error alone. Only a
\* successful handshake hands an open transport to the caller.
C12_HandshakeLeavesOpenConnectDrops ==
    /\ pc = "Failed" =>
          /\ outcome.kind = "Err"
          /\ hsock = "open"
          /\ sock = "dropped"
    /\ pc = "Ready" => hsock = "open" /\ sock = "open"
    /\ pc \in {"Unauthenticated", "AwaitingConnected"} => sock = "open"

\* a handshake failed on a stream that closed before any reply: left open
\* by client_handshake, dropped by connect
C12_Witness ==
    /\ HandshakeFailedOnReply
    /\ items[1].kind = "End"
    /\ hsock = "open"
    /\ sock = "dropped"

\* ---------------------------------------------------------------------
\* C13  what the CONNECT carries

\* the CONNECT that was handed to the transport
SentConnect == sent[1].item

\* C13: the CONNECT advertises version 1.2 and no heartbeat, and carries the
\* host, the login, the passcode and the headers of the call as they were
\* supplied, values and order, whether login and passcode are present or
\* absent; connect supplies no headers; nothing else is added.
C13_ConnectCarriesTheCall ==
    /\ pc \in {"AwaitingConnected", "Ready"} => Len(sent) = 1
    /\ sent # <<>> =>
          /\ SentConnect.content.type = "Connect"
          /\ SentConnect.content.accept_version = <<"1", ".", "2">>
          /\ SentConnect.content.heartbeat = None
          /\ SentConnect.content.host = args.address.text
          /\ SentConnect.content.login = args.login
          /\ SentConnect.content.passcode = args.passcode
          /\ args.via = "connect" => SentConnect.content.headers = <<>>
          /\ args.via = "connect_with_headers" =>
                SentConnect.content.headers = args.headers
          /\ SentConnect.extra_headers = <<>>

\* connect_with_headers with a passcode, no login and three headers, two
\* of one name: the CONNECT went out with all of it
C13_Witness ==
    /\ pc = "AwaitingConnected"
    /\ args.via = "connect_with_headers"
    /\ args.login = None
    /\ args.passcode = Some(<<"x", COL>>)
    /\ Len(args.headers) = 3
    /\ SentConnect.content.headers[1] = <<<<"x">>, <<"2">>>>
    /\ SentConnect.content.headers[3] = <<<<"x">>, <<"1">>>>
    /\ SentConnect.content.login = None
    /\ out # <<>>

\* ---------------------------------------------------------------------
\* C14  encode appends

\* the serialized frames of the messages encoded so far, in call order
EncodedSoFar == Flatten([i \in 1..Len(sent) |-> serialize(to_frame(sent[i].item))])

\* C14: after any sequence of encode calls the output buffer is what it
\* held at first followed by the serialized frames of the encoded messages
\* in call order, so no byte that was there is changed or removed; and
\* every encode call returned Ok.
C14_EncodeOnlyAppends ==
    /\ out = args.dst \o EncodedSoFar
    /\ \A i \in 1..Len(sent) :
          /\ sent[i].item = args.messages[i]
          /\ sent[i].res = Ok("()")

\* two different messages, one of them with a body, encoded into a buffer
\* that was not empty
C14_Witness ==
    /\ pc = "Codec"
    /\ args.dst = <<LF>>
    /\ Len(sent) = 2
    /\ sent[1].item.content.type = "Send"
    /\ sent[2].item.content.type = "Subscribe"
    /\ out = <<LF>> \o serialize(to_frame(sent[1].item))
                    \o serialize(to_frame(sent[2].item))
    /\ Len(out) > 1 + Len(serialize(to_frame(sent[2].item)))

\* ---------------------------------------------------------------------
\* C15  failures are error values

\* C15: connect, connect_with_headers, the handshake and decode end, on
\* every input (any address, any bytes from the server, a closed stream),
\* with a returned success or a returned error: never with a panic, and
\* every decode call returns Ok or Err.
C15_EveryFailureIsAnErrorValue ==
    /\ pc # "Panicked"
    /\ outcome = None \/ outcome.kind \in {"Ok", "Err"}
    /\ pc \in {"ConnectFailed", "Failed"} => outcome.kind = "Err"
    /\ last # NoCall => last.res.kind \in {"Ok", "Err"}

\* ---------------------------------------------------------------------
\* C16  decoding what encode produced

\* decode is run on the bytes of the messages that were encoded
EchoRun == pc = "Codec" /\ args.messages # <<>>

\* the bytes encode appended for the i-th message
EncodedBytes(i) == serialize(to_frame(sent[i].item))

\* the encoded bytes of the messages after the n-th
EncodedAfter(n) == Flatten([j \in 1..(Len(sent) - n) |-> EncodedBytes(n + j)])

\* C16 as stated: decoding the bytes encode produced for a message yields
\* a message equal to it, and consumes exactly the bytes encode appended.
C16_DecodeOfEncodeIsTheMessage ==
    EchoRun =>
       /\ \A i \in 1..Len(items) : items[i] = ItemMsg(sent[i].item)
       /\ Len(items) >= 1 => buf = EncodedAfter(Len(items))

\* C16 amended: the codec encodes client-to-server messages and decodes
\* server-to-client ones, so decoding the bytes encode produced for a
\* message m never yields m: it returns the mapping error of a command of
\* the other direction. The frame round-trips all the same: the parser
\* returns exactly m's frame from those bytes (command, headers in order
\* with duplicates and escapes, body, plus the content-length the
\* serializer added for a body), and decode consumes exactly the bytes
\* encode appended.
C16_DecodeOfEncodeIsAMappingError ==
    EchoRun =>
       /\ \A i \in 1..Len(items) :
             LET f == to_frame(sent[i].item)
                 p == parse_frame(EncodedBytes(i))
             IN  /\ items[i] = ItemErr([type |-> "Mapping",
                                        why  |-> "command of the other direction"])
                 /\ p.kind = "Ok"
                 /\ p.remain = <<>>
                 /\ p.frame.command = f.command
                 /\ p.frame.body = f.body
                 /\ RemoveFirst(p.frame.headers, ContentLengthName) = f.headers
                 /\ f.body = <<>> => p.frame.headers = f.headers
       /\ Len(items) <= Len(sent)
       /\ Len(items) >= 1 => buf = EncodedAfter(Len(items))
       /\ (last # NoCall /\ last.res.kind = "Err") =>
             Len(last.src) - Len(last.after)
                = Len(EncodedBytes(Len(items)))
                  + (IF Len(items) = 1 THEN Len(args.dst) ELSE 0)

\* a SUBSCRIBE with an escaped destination and a repeated header name and
\* a SEND with a terminator byte in its body went through encode and decode
C16_Witness ==
    /\ EchoRun
    /\ args.dst = <<>>
    /\ Len(sent) = 2
    /\ sent[1].item = subscribe_with_headers(<<"x", COL, BS, LF>>, <<"1">>,
                          <<<<<<"x">>, <<"2">>>>, <<<<"y">>, <<LF>>>>, <<<<"x">>, <<"1">>>>>>)
    /\ sent[2].item = send_message(<<"x">>, <<NUL, "x">>)
    /\ Len(items) = 2
    /\ items[2].kind = "Err"
    /\ buf = <<>>

\* ---------------------------------------------------------------------
\* C17  a frame the mapping rejects is consumed

\* decode is run on the bytes of a script: a rejected frame, then a good one
ScriptRun == pc = "Codec" /\ script # <<>>

\* the last decode call got a complete frame whose mapping failed
LastFrameRejected ==
    /\ last # NoCall
    /\ LastParse.kind = "Ok"
    /\ LastItem.kind = "Err"

\* C17: when the parser returns a complete frame and its mapping fails,
\* decode returns the mapping error and has advanced the buffer by exactly
\* that frame's length; the next decode call on the buffer starts at the
\* first byte after the rejected frame, and yields the frame that follows.
C17_RejectedFrameIsConsumed ==
    /\ LastFrameRejected =>
          /\ last.res = Err(LastItem.error)
          /\ last.res.error.type = "Mapping"
          /\ last.after = LastParse.remain
          /\ last.after = SubSeq(last.src, Len(last.src) - Len(LastParse.remain) + 1,
                                 Len(last.src))
    /\ ScriptRun =>
          /\ Len(items) >= 1 =>
                /\ items[1].kind = "Err"
                /\ items[1].error.type = "Mapping"
          /\ Len(items) = 1 =>
                buf = SubSeq(Stream(script), Len(script[1].bytes) + 1, Received)
          /\ Len(items) >= 2 =>
                /\ items[2] = ItemMsg(from_frame(script[2].frame).msg)
                /\ buf = SubSeq(Stream(script), Len(Stream(script)) + 1, Received)
          /\ (Len(items) = 2 /\ last.res.kind = "Ok" /\ last.res.val.kind = "Some") =>
                /\ Len(last.src) >= Len(script[2].bytes)
                /\ SubSeq(last.src, 1, Len(script[2].bytes)) = script[2].bytes

\* both frames were in the buffer when the first, a CONNECTED with no
\* version, was rejected: the buffer now begins at the second frame
C17_Witness ==
    /\ ScriptRun
    /\ Len(items) = 1
    /\ items[1].kind = "Err"
    /\ items[1].error.why = "missing version"
    /\ LastFrameRejected
    /\ last.src = Stream(script)
    /\ last.after = script[2].bytes
    /\ buf = script[2].bytes

\* ---------------------------------------------------------------------
\* C18  no inbound byte is lost or duplicated across the handshake

\* the step on which the handshake returns success
HandshakeSucceeds == pc = "AwaitingConnected" /\ pc' = "Ready"

\* C18: the successful handshake consumes exactly the bytes of the
\* CONNECTED frame: on the step it returns, the buffer loses that frame from
\* its front and nothing else, and nothing is read or dropped; the bytes
\* received after the frame, in the same read or an earlier one, are in the
\* buffer of the transport the caller gets, and the caller's receives yield
\* the messages of the frames that follow, in order.
C18_HandshakeKeepsLaterBytes ==
    /\ [](pc = "Ready" =>
            /\ buf = SubSeq(Stream(script), Consumed + 1, Received)
            /\ (Len(items) = 1 /\ GoodUpTo(1)) => Consumed = Len(script[1].bytes)
            /\ \A i \in 2..Len(items) :
                  (items[i].kind = "Msg" /\ GoodUpTo(i)) =>
                      items[i] = ItemMsg(from_frame(script[i].frame).msg)
            /\ (AllMessages /\ GoodUpTo(Len(items))) =>
                  Consumed = UnitsLen(script, Len(items)))
    /\ [][HandshakeSucceeds =>
            /\ Len(items') = 1
            /\ last'.src = buf
            /\ parse_frame(buf).kind = "Ok"
            /\ buf' = parse_frame(buf).remain
            /\ buf' = SubSeq(buf, Len(buf) - Len(buf') + 1, Len(buf))
            /\ wire' = wire
            /\ sock' = sock]_vars

\* the CONNECTED frame and a MESSAGE frame came in before the handshake
\* decoded: it returned with the MESSAGE frame, whole, in the buffer
C18_Witness ==
    /\ pc = "Ready"
    /\ Len(script) = 2 /\ GoodUpTo(2)
    /\ script[2].frame.command = "MESSAGE"
    /\ Len(items) = 1
    /\ last.src = script[1].bytes \o script[2].bytes
    /\ buf = script[2].bytes
    /\ wire = <<>>

\* ---------------------------------------------------------------------
\* C19  a failed send ends the handshake at once

\* the send of the CONNECT failed
SendFailed == outcome = Err(WriteError)

\* C19: if sending the CONNECT fails with a transport error, the handshake
\* fails with that error on that very step, without awaiting or consuming
\* an inbound message: nothing is read, nothing is decoded, no item is
\* taken, and the inbound buffer and the bytes in flight are as they were.
C19_FailedSendAwaitsNothing ==
    /\ [](SendFailed =>
            /\ pc = "Failed"
            /\ NothingAwaited
            /\ wire = Stream(script)
            /\ out = <<>>)
    /\ [][(pc = "Unauthenticated" /\ out' = out) =>
            /\ pc' \in {"Unauthenticated", "Failed"}
            /\ pc' = "Failed" =>
                  /\ outcome' = Err(WriteError)
                  /\ UNCHANGED <<buf, wire, items, last, readable, eof>>]_vars

\* the send failed while the server's bytes were in flight: the handshake
\* has failed with the write error and none of them has been read
C19_Witness ==
    /\ SendFailed
    /\ pc = "Failed"
    /\ Len(script) = 2
    /\ wire = Stream(script)
    /\ buf = <<>>
    /\ items = <<>>
    /\ sock = "dropped"

\* ---------------------------------------------------------------------
\* C20  the handshake ends when the transport answers, and not before

\* the handshake attempt has ended
HandshakeEnded == pc \in {"Ready", "Failed"}

\* C20: given a transport that eventually takes the CONNECT or reports a
\* write error and eventually yields one outcome (a frame, a decode error,
\* a read error or the end of the stream), a handshake attempt eventually
\* ends in Ready or Failed. It has no timeout of its own: as long as the
\* transport yields no item it stays in AwaitingConnected with neither
\* success nor failure reported.
C20_HandshakeEndsWhenTransportAnswers ==
    /\ (pc = "Unauthenticated") ~> HandshakeEnded
    /\ [](pc = "AwaitingConnected" => outcome = None /\ items = <<>>)
    /\ [][(pc = "AwaitingConnected" /\ items' = items) =>
            (pc' = "AwaitingConnected" /\ outcome' = None)]_vars
    /\ [][HandshakeEnded => pc' = pc /\ outcome' = outcome]_vars

\* the reply came in byte by byte: every poll but the last found no frame
\* and the handshake kept waiting; with the last byte it ended in Ready
C20_Witness ==
    /\ pc = "Ready"
    /\ outcome = Ok("Ready")
    /\ bytewise
    /\ Len(script) = 1
    /\ wire = <<>> /\ ~eof
    /\ Len(items) = 1
    /\ last.src = script[1].bytes
    /\ Len(last.src) > 3

====
